---- MODULE Spec2Model ----
(***************************************************************************)
(* Model of the real-time delivery core of chat-backend:                   *)
(*   - MessageController.sendMessage / markDelivered / markRead            *)
(*     (src/src/controllers/messageController.ts)                          *)
(*   - CallController.initiateCall / reportRinging / acceptCall / endCall  *)
(*     (src/src/controllers/callController.ts)                             *)
(*                                                                         *)
(* Every handler is an async function: it runs synchronously up to an      *)
(* `await` of a store operation and resumes when the operation answers.    *)
(* One action of the model is one such segment: the awaited store          *)
(* operation takes effect and the handler runs on to its next await (or    *)
(* to its response).  Handlers of different requests interleave between    *)
(* segments, which is exactly what Node's event loop allows.               *)
(***************************************************************************)
EXTENDS Integers, FiniteSets, Sequences, TLC

(***************************************************************************)
(* Bounds of the model.                                                    *)
(***************************************************************************)
MaxRequests == 2     \* acknowledgment requests (markDelivered/markRead) served

Users == {1, 2, 3}
Absent == 0              \* an optional request field that was not supplied
Procs == {"h1", "h2"}    \* request handlers that may be in flight together
\* The handlers touch no message but the one whose id they are given, so the
\* model follows one message: id 1 is the one sendMessage stores, id 2 is an
\* id no message ever has.
StoredIds == {1}
MsgIds == {1, 2}
\* Conversations as createConversation stores them: the creator (user 1) and
\* one or more other users.  The creator sends; user ids being
\* interchangeable, every conversation and sender is one of these up to
\* renaming, and with members {1, 2} user 3 is a non-member.
Conversations == {{1, 2}, {1, 2, 3}}
\* The store also holds what is left of a conversation when the rows of its
\* other members are gone (conversation_members rows are deleted with their
\* user): the sender alone.
StoredConversations == Conversations \cup {{1}}
Senders == {1}

(***************************************************************************)
(* enum MessageStatus (prisma/migrations/.../migration.sql:5)              *)
(***************************************************************************)
MessageStatus == {"SENT", "DELIVERED", "READ"}

Rank(s) == CASE s = "SENT" -> 0 [] s = "DELIVERED" -> 1 [] s = "READ" -> 2

VARIABLES
    members,     \* the conversation's member set (conversation_members rows)
    messages,    \* the messages table: a sequence, the id is the index
    req,         \* per handler: the local variables of the request it serves
    events,      \* the sendEventToUser calls made so far, in order
    nreq,        \* acknowledgment requests accepted so far
    started,     \* history: the acknowledgment calls <<op, id, user>>, in arrival order
    responses    \* history: the answers given, [call, code]

msgVars == <<members, messages, req, events, nreq, started, responses>>

VARIABLES
    calls,       \* the calls table: a sequence, the id is the index
    creq,        \* per handler: the local variables of the call request it serves
    cevents,     \* the sseManager.sendEventToUser calls made so far, in order
    now,         \* the clock new Date() reads
    credentials, \* whether LIVEKIT_API_KEY and LIVEKIT_API_SECRET are set
    ncreq,       \* accept / end / ringing requests accepted so far
    cresponse    \* the answer given last, [op, callId, userId, code]

callVars == <<calls, creq, cevents, now, credentials, ncreq, cresponse>>

VARIABLES
    connections, \* every stream ever opened: [userId, server], the id is the index
    registry,    \* the ids held in the servers' registries
    open,        \* the ids whose stream is still writable
    written,     \* per connection: the events written to its stream, in order
    sent,        \* the sendEventToUser calls made: [userId, origin, result] and,
                 \* for the record, the user's connections live at the call
    channel,     \* the copies of published events in flight: [event, to]
    publishes,   \* per event: how many times it was published
    redelivered  \* whether the channel has handed a server a copy once more

sseVars == <<connections, registry, open, written, sent, channel, publishes,
             redelivered>>

VARIABLES
    conversationRows, \* the conversations table with its member rows: a
                      \* sequence of [type, members], the id is the index
    cvreq,            \* per handler: the local variables of createConversation
    cvevents,         \* the conversation:new sendEventToUser calls, in order
    cvresponses       \* history: the answers given, in order

convVars == <<conversationRows, cvreq, cvevents, cvresponses>>

VARIABLES
    challenge,     \* the qr_challenges row of one token, or NoChallenge
    refreshTokens, \* the refresh_tokens rows stored for desktop sessions
    qreq,          \* per handler: the local variables of scan / confirm
    qresponses     \* history: the outcomes of the calls, in order

qrVars == <<challenge, refreshTokens, qreq, qresponses>>

vars == <<msgVars, callVars, sseVars, convVars, qrVars>>

(***************************************************************************)
(* Connection Registry and Event Broadcast Manager (sseManager).           *)
(*                                                                         *)
(* The controllers call sendEventToUser of '../sse'; that module and the   *)
(* publish/subscribe service it uses are not among the sources, so this    *)
(* part follows the specification (4.1, 4.2, 5, 6, 7).                     *)
(*                                                                         *)
(* Every server process keeps its own registry of the streams opened on    *)
(* it.  A connection is named by the id register gave it; its user and     *)
(* server never change.  A stream can die (Close) before its server has    *)
(* unregistered it: a write to it then fails.                              *)
(***************************************************************************)
MaxEvents == 2           \* sendEventToUser calls followed through the manager

\* The ids register gives out, in this order, and the ids unregister is
\* called with: those and one that names no connection.
ConnectionIds == {1, 2}
RequestedIds == {1, 2, 3}

Servers == {"s1", "s2"}
Listeners == {2, 3}      \* the users who open streams
Targets == {2}           \* the user the events followed are sent to

\* registry.connectionsFor(userId) on one server: the snapshot of the
\* connections registered there for the user.
ConnectionsIn(reg, server, userId) ==
    {c \in reg : connections[c].server = server /\ connections[c].userId = userId}

ConnectionsFor(server, userId) == ConnectionsIn(registry, server, userId)

\* The connections of a user that are live, on whichever server: registered
\* and not dead.
Live(userId) ==
    {c \in registry \cap open : connections[c].userId = userId}

\* register(userId, connectionHandle) -> connectionId; never fails.
Register(server, userId) ==
    /\ Len(connections) + 1 \in ConnectionIds
    /\ connections' = Append(connections, [userId |-> userId, server |-> server])
    /\ registry' = registry \cup {Len(connections) + 1}
    /\ open' = open \cup {Len(connections) + 1}
    /\ written' = Append(written, <<>>)
    /\ UNCHANGED <<sent, channel, publishes, redelivered, msgVars, callVars,
                   convVars, qrVars>>

\* Variant of unregister that drops every connection of the same user.
RemoveUser(reg, connectionId) ==
    {c \in reg : connectionId \in DOMAIN connections
                   => connections[c].userId # connections[connectionId].userId}

\* unregister(connectionId): idempotent removal.
Remove(reg, connectionId) == reg \ {connectionId}

Unregister(connectionId) ==
    /\ registry' = Remove(registry, connectionId)
    /\ open' = open \cap registry'
    /\ UNCHANGED <<connections, written, sent, channel, publishes,
                   redelivered, msgVars, callVars, convVars, qrVars>>

\* The client of a registered connection goes away: the stream is dead from
\* now on, and the server unregisters it when it notices.
Close(connectionId) ==
    /\ connectionId \in registry \cap open
    /\ open' = open \ {connectionId}
    /\ UNCHANGED <<connections, registry, written, sent, channel, publishes,
                   redelivered, msgVars, callVars, convVars, qrVars>>

\* Variant of a write that puts the event before the ones written earlier.
WriteFirst(log, event) == <<event>> \o log

\* A successful write of an event to a stream.
Write(log, event) == Append(log, event)

\* Variant of the fan-out that gives up at the first write that fails.
RECURSIVE WriteUntilFailure(_, _, _)
WriteUntilFailure(logs, conns, event) ==
    IF conns = {} THEN logs
    ELSE LET c == CHOOSE x \in conns : \A y \in conns : x <= y
         IN IF c \in open
            THEN WriteUntilFailure([logs EXCEPT ![c] = Write(@, event)],
                                   conns \ {c}, event)
            ELSE logs

\* Write the event to each connection of the snapshot; a write to a dead
\* stream fails, the failure is suppressed and the next one is written.
RECURSIVE WriteAll(_, _, _)
WriteAll(logs, conns, event) ==
    IF conns = {} THEN logs
    ELSE LET c == CHOOSE x \in conns : \A y \in conns : x <= y
         IN WriteAll(IF c \in open THEN [logs EXCEPT ![c] = Write(@, event)]
                                   ELSE logs,
                     conns \ {c}, event)

\* Variant of publish that reaches no server.
NoCopies(event) == {}

\* publish(channel, message): every subscribed server, the publisher
\* included, is handed a copy.
Copies(event) == {[event |-> event, to |-> t] : t \in Servers}

\* Variant of the handler that publishes the event it received.
PublishedAgain(event) == {[event |-> event, to |-> t] : t \in Servers}

\* What the handler of a received copy publishes: nothing.
Republished(event) == {}

\* Variants of the outcome of sendEventToUser: an error when the user has
\* no connection on the server, an error when a write fails.
ErrorWhenNoConnection(server, userId) ==
    IF ConnectionsFor(server, userId) = {} THEN "error" ELSE "ok"

ErrorWhenWriteFails(server, userId) ==
    IF ConnectionsFor(server, userId) \subseteq open THEN "ok" ELSE "error"

\* The outcome of sendEventToUser as its caller sees it: fire-and-forget,
\* no connection is not an error and failed writes are suppressed.
SendResult(server, userId) == "ok"

\* sendEventToUser(userId, eventName, payload) called on a server.
SendEventToUser(server, userId) ==
    /\ Len(sent) < MaxEvents
    /\ LET event == Len(sent) + 1
       IN /\ written' = WriteAll(written, ConnectionsFor(server, userId), event)
          /\ channel' = channel \cup Copies(event)
          /\ publishes' = Append(publishes, 1)
          /\ sent' = Append(sent, [userId |-> userId, origin |-> server,
                                   result |-> SendResult(server, userId),
                                   live |-> Live(userId)])
    /\ UNCHANGED <<connections, registry, open, redelivered, msgVars, callVars,
                   convVars, qrVars>>

\* Variant of the subscriber's test that takes no copy for its own.
NeverOwnCopy(server, event) == FALSE

\* The copy a server receives of an event it published itself.
OwnCopy(server, event) == sent[event].origin = server

\* The subscriber's handler on a server, run for a copy the channel hands
\* it: deliver to the local connections of the named user, publish
\* nothing.  The channel is at-least-once: it may hand the same copy again
\* (the model lets it do so once, for a copy that is not dropped anyway).
Receive(m, again) ==
    /\ m \in channel
    /\ IF again
       THEN /\ ~redelivered
            /\ ~OwnCopy(m.to, m.event)
            /\ redelivered' = TRUE
       ELSE UNCHANGED redelivered
    /\ written' = IF OwnCopy(m.to, m.event) THEN written
                  ELSE WriteAll(written,
                                ConnectionsFor(m.to, sent[m.event].userId), m.event)
    /\ channel' = (IF again THEN channel ELSE channel \ {m})
                     \cup Republished(m.event)
    /\ publishes' = [publishes EXCEPT ![m.event] =
                        @ + Cardinality(Republished(m.event))]
    /\ UNCHANGED <<connections, registry, open, sent, msgVars, callVars,
                   convVars, qrVars>>

SseInit ==
    /\ connections = <<>>
    /\ registry = {}
    /\ open = {}
    /\ written = <<>>
    /\ sent = <<>>
    /\ channel = {}
    /\ publishes = <<>>
    /\ redelivered = FALSE

\* Unregister is called with the id of any connection ever opened or with
\* an id that names none.
SseNext ==
    \/ \E s \in Servers, u \in Listeners : Register(s, u)
    \/ \E c \in RequestedIds : Unregister(c)
    \/ \E c \in ConnectionIds : Close(c)
    \/ \E s \in Servers, u \in Targets : SendEventToUser(s, u)
    \/ \E m \in channel, again \in BOOLEAN : Receive(m, again)

NoMessage == [senderId |-> Absent, conversationId |-> Absent, status |-> "none",
              deliveredTo |-> {}, readBy |-> {}, members |-> {}]

Idle == [pc |-> "idle", op |-> "none", id |-> 0, userId |-> Absent,
         targetUserId |-> Absent, message |-> NoMessage, updatedStatus |-> "none"]

AllIdle == \A p \in Procs : req[p].pc = "idle"

\* A new request is served by the first free handler (the handlers are
\* interchangeable names of concurrent executions).
Free(p) ==
    /\ req[p].pc = "idle"
    /\ (p = "h2" => req["h1"].pc # "idle")

\* res.status(code).json(...)
Response(call, code) == [call |-> call, code |-> code]

Completed(call) == Response(call, 200) \in responses

(***************************************************************************)
(* The store (prisma).                                                     *)
(***************************************************************************)
\* prisma.message.findUnique({ where: { id }, include: { deliveredTo, readBy,
\* conversation: { include: { members } } } }): null when no row has the id.
FindMessage(id) ==
    IF id \in DOMAIN messages
    THEN [senderId |-> messages[id].senderId,
          conversationId |-> messages[id].conversationId,
          status |-> messages[id].status,
          deliveredTo |-> messages[id].deliveredTo,
          readBy |-> messages[id].readBy,
          members |-> members]
    ELSE NoMessage

\* A variant of the count that takes the recipients of the time the message
\* was sent: the users message:new went to.
RecipientCountAtSend(message) ==
    Cardinality({i \in DOMAIN events : events[i].name = "message:new"})

\* message.conversation.members.filter(m => m.userId !== message.senderId).length
RecipientCount(message) ==
    Cardinality({m \in message.members : m # message.senderId})

\* A variant of the status event that goes to the acknowledging user.
StatusEventToAcker(to, id, kind, user) ==
    [to |-> user, name |-> "message:status", messageId |-> id,
     status |-> kind, userId |-> user]

\* sendEventToUser(senderId, 'message:status', { messageId, status, userId })
StatusEvent(to, id, kind, user) ==
    [to |-> to, name |-> "message:status", messageId |-> id,
     status |-> kind, userId |-> user]

\* sendEventToUser(recipientId, 'message:new', { message: messagePayload })
NewEvent(to, id, sender) ==
    [to |-> to, name |-> "message:new", messageId |-> id,
     status |-> "SENT", userId |-> sender]

\* recipientIds.forEach(...): one event per recipient, in member order.
RECURSIVE NewEvents(_, _, _)
NewEvents(recipients, id, sender) ==
    IF recipients = {} THEN <<>>
    ELSE LET r == CHOOSE x \in recipients : \A y \in recipients : x <= y
         IN <<NewEvent(r, id, sender)>> \o NewEvents(recipients \ {r}, id, sender)

(***************************************************************************)
(* MessageController.sendMessage                                           *)
(***************************************************************************)
\* Variant of the recipient list that keeps the sender in it.
AllMemberIds(conversationMembers, userId) == conversationMembers

\* recipientIds = conversation.members.filter(m => m.userId !== userId)
\*                                     .map(m => m.userId)
RecipientIds(conversationMembers, userId) == conversationMembers \ {userId}

\* Variant of the receiver that has no fallback to the sender.
FirstOtherMember(conversationMembers, userId) ==
    IF conversationMembers \ {userId} # {}
    THEN CHOOSE x \in conversationMembers \ {userId} :
             \A y \in conversationMembers \ {userId} : x <= y
    ELSE Absent

\* receiverMember = conversation.members.find(m => m.userId !== userId)
\*                  || conversation.members[0]
\* receiverId = receiverMember?.userId || userId
\* (the members in the order of their ids.)
ReceiverId(conversationMembers, userId) ==
    LET others == conversationMembers \ {userId}
        First(S) == CHOOSE x \in S : \A y \in S : x <= y
    IN IF others # {} THEN First(others)
       ELSE IF conversationMembers # {} THEN First(conversationMembers)
       ELSE userId

\* The handler served by one server process.  The message is stored before
\* the recipients are notified; a sendEventToUser call that raised would end
\* the forEach and be answered 500 by the catch block.
SendMessageOn(server, userId) ==
    /\ Len(messages) + 1 \in StoredIds
    /\ userId \in members                      \* isMember, else 403
    /\ messages' = Append(messages,
            [senderId |-> userId, receiverId |-> ReceiverId(members, userId),
             conversationId |-> 1, status |-> "SENT",
             deliveredTo |-> {}, readBy |-> {}])
    /\ LET recipientIds == RecipientIds(members, userId)
           raising == {r \in recipientIds : SendResult(server, r) # "ok"}
           called == {r \in recipientIds : \A f \in raising : r <= f}
       IN /\ events' = events \o NewEvents(called, Len(messages) + 1, userId)
          /\ responses' = responses \cup
                 {Response(<<"sendMessage", Len(messages) + 1, userId>>,
                           IF raising = {} THEN 201 ELSE 500)}
    /\ UNCHANGED <<members, req, nreq, started, callVars, sseVars,
                   convVars, qrVars>>

SendMessage(userId) == \E server \in Servers : SendMessageOn(server, userId)

(***************************************************************************)
(* MessageController.markDelivered                                         *)
(***************************************************************************)
\* Variants of the handlers' tests, to see that the properties below rest on
\* them: no 404 for a missing message; no early answer for a user already
\* in deliveredTo; promotion only beyond the recipient count.
NeverNotFound(message) == FALSE
NeverAlreadyDelivered(message, targetUserId) == FALSE
MoreThanAllDelivered(updatedMessage, recipientCount) ==
    Cardinality(updatedMessage.deliveredTo) > recipientCount

\* A variant of the threshold test that counts recipients only.
AllRecipientsDelivered(updatedMessage, recipientCount) ==
    Cardinality({u \in updatedMessage.deliveredTo :
                    u \in updatedMessage.members /\ u # updatedMessage.senderId})
       >= recipientCount

\* if (!message) { res.status(404) ... }
NotFound(message) == message = NoMessage

\* const targetUserId = toUserId || userId;
TargetUserId(bodyUserId, userId) ==
    IF bodyUserId # Absent THEN bodyUserId ELSE userId

\* message.deliveredTo.some(user => user.id === targetUserId)
AlreadyDelivered(message, targetUserId) == targetUserId \in message.deliveredTo

\* updatedMessage.deliveredTo.length >= recipientCount
AllDelivered(updatedMessage, recipientCount) ==
    Cardinality(updatedMessage.deliveredTo) >= recipientCount

\* The request arrives, findUnique answers; 404, the idempotent answer, or on
\* to the connect.
MarkDeliveredFind(p, userId, toUserId, id) ==
    /\ Free(p)
    /\ nreq < MaxRequests
    /\ nreq' = nreq + 1
    /\ LET targetUserId == TargetUserId(toUserId, userId)
           message == FindMessage(id)
           call == <<"markDelivered", id, targetUserId>>
       IN /\ started' = Append(started, call)
          /\ IF NotFound(message)
             THEN /\ responses' = responses \cup {Response(call, 404)}
                  /\ UNCHANGED req
             ELSE IF AlreadyDelivered(message, targetUserId)
             THEN /\ responses' = responses \cup {Response(call, 200)}
                  /\ UNCHANGED req
             ELSE /\ req' = [req EXCEPT ![p] =
                        [pc |-> "connect", op |-> "markDelivered", id |-> id,
                         userId |-> userId, targetUserId |-> targetUserId,
                         message |-> message, updatedStatus |-> "none"]]
                  /\ UNCHANGED responses
    /\ UNCHANGED <<members, messages, events, callVars, sseVars,
                   convVars, qrVars>>

\* update({ data: { deliveredTo: { connect: { id: targetUserId } } } }) answers;
\* updatedStatus = message.status; recipientCount is taken from the snapshot.
MarkDeliveredConnect(p) ==
    /\ req[p].pc = "connect" /\ req[p].op = "markDelivered"
    /\ messages' = [messages EXCEPT ![req[p].id].deliveredTo = @ \cup {req[p].targetUserId}]
    /\ IF req[p].message.conversationId # Absent
       THEN /\ req' = [req EXCEPT ![p].pc = "recount",
                                  ![p].updatedStatus = req[p].message.status]
            /\ UNCHANGED events
       ELSE /\ req' = [req EXCEPT ![p].pc = "final",
                                  ![p].updatedStatus = req[p].message.status]
            /\ events' = Append(events, StatusEvent(req[p].message.senderId,
                                  req[p].id, "delivered", req[p].targetUserId))
    /\ UNCHANGED <<members, nreq, started, responses, callVars, sseVars,
                   convVars, qrVars>>

\* The second findUnique answers; either the status update is issued, or the
\* event is emitted at once.
MarkDeliveredRecount(p) ==
    /\ req[p].pc = "recount" /\ req[p].op = "markDelivered"
    /\ LET updatedMessage == FindMessage(req[p].id)
       IN IF AllDelivered(updatedMessage, RecipientCount(req[p].message))
          THEN /\ req' = [req EXCEPT ![p].pc = "promote",
                                     ![p].updatedStatus = "DELIVERED"]
               /\ UNCHANGED events
          ELSE /\ req' = [req EXCEPT ![p].pc = "final"]
               /\ events' = Append(events, StatusEvent(req[p].message.senderId,
                                     req[p].id, "delivered", req[p].targetUserId))
    /\ UNCHANGED <<members, messages, nreq, started, responses, callVars, sseVars,
                   convVars, qrVars>>

\* update({ data: { status: DELIVERED } }) answers; the event is emitted.
MarkDeliveredPromote(p) ==
    /\ req[p].pc = "promote" /\ req[p].op = "markDelivered"
    /\ messages' = [messages EXCEPT ![req[p].id].status = req[p].updatedStatus]
    /\ events' = Append(events, StatusEvent(req[p].message.senderId,
                          req[p].id, "delivered", req[p].targetUserId))
    /\ req' = [req EXCEPT ![p].pc = "final"]
    /\ UNCHANGED <<members, nreq, started, responses, callVars, sseVars,
                   convVars, qrVars>>

\* The last findUnique answers (it only fills the response body); 200.
MarkDeliveredRespond(p) ==
    /\ req[p].pc = "final" /\ req[p].op = "markDelivered"
    /\ responses' = responses \cup
            {Response(<<"markDelivered", req[p].id, req[p].targetUserId>>, 200)}
    /\ req' = [req EXCEPT ![p] = Idle]
    /\ UNCHANGED <<members, messages, events, nreq, started, callVars, sseVars,
                   convVars, qrVars>>

(***************************************************************************)
(* MessageController.markRead                                              *)
(***************************************************************************)
\* message.readBy.some(user => user.id === targetUserId)
AlreadyRead(message, targetUserId) == targetUserId \in message.readBy

\* A variant of updateData that connects readBy alone.
ReadByAlone(m, message, targetUserId) ==
    [m EXCEPT !.readBy = @ \cup {targetUserId}]

\* updateData: readBy always, deliveredTo only when the snapshot lacks the user.
ReadUpdate(m, message, targetUserId) ==
    [m EXCEPT !.readBy = @ \cup {targetUserId},
              !.deliveredTo = IF targetUserId \in message.deliveredTo
                              THEN @ ELSE @ \cup {targetUserId}]

\* A variant that sets DELIVERED only when every recipient is in deliveredTo.
ReadStatusWhenAllDelivered(updatedMessage, recipientCount, updatedStatus) ==
    IF Cardinality(updatedMessage.readBy) >= recipientCount THEN "READ"
    ELSE IF /\ updatedStatus # "READ"
            /\ Cardinality(updatedMessage.deliveredTo) >= recipientCount
         THEN "DELIVERED"
    ELSE "none"

\* if (readBy.length >= recipientCount) READ
\* else if (updatedStatus !== READ) DELIVERED     ("none": no update is issued)
ReadStatus(updatedMessage, recipientCount, updatedStatus) ==
    IF Cardinality(updatedMessage.readBy) >= recipientCount THEN "READ"
    ELSE IF updatedStatus # "READ" THEN "DELIVERED"
    ELSE "none"

MarkReadFind(p, userId, readByUserId, id) ==
    /\ Free(p)
    /\ nreq < MaxRequests
    /\ nreq' = nreq + 1
    /\ LET targetUserId == TargetUserId(readByUserId, userId)
           message == FindMessage(id)
           call == <<"markRead", id, targetUserId>>
       IN /\ started' = Append(started, call)
          /\ IF NotFound(message)
             THEN /\ responses' = responses \cup {Response(call, 404)}
                  /\ UNCHANGED req
             ELSE IF AlreadyRead(message, targetUserId)
             THEN /\ responses' = responses \cup {Response(call, 200)}
                  /\ UNCHANGED req
             ELSE /\ req' = [req EXCEPT ![p] =
                        [pc |-> "connect", op |-> "markRead", id |-> id,
                         userId |-> userId, targetUserId |-> targetUserId,
                         message |-> message, updatedStatus |-> "none"]]
                  /\ UNCHANGED responses
    /\ UNCHANGED <<members, messages, events, callVars, sseVars,
                   convVars, qrVars>>

MarkReadConnect(p) ==
    /\ req[p].pc = "connect" /\ req[p].op = "markRead"
    /\ messages' = [messages EXCEPT ![req[p].id] =
                        ReadUpdate(@, req[p].message, req[p].targetUserId)]
    /\ IF req[p].message.conversationId # Absent
       THEN /\ req' = [req EXCEPT ![p].pc = "recount",
                                  ![p].updatedStatus = req[p].message.status]
            /\ UNCHANGED events
       ELSE /\ req' = [req EXCEPT ![p].pc = "final",
                                  ![p].updatedStatus = req[p].message.status]
            /\ events' = Append(events, StatusEvent(req[p].message.senderId,
                                  req[p].id, "read", req[p].targetUserId))
    /\ UNCHANGED <<members, nreq, started, responses, callVars, sseVars,
                   convVars, qrVars>>

MarkReadRecount(p) ==
    /\ req[p].pc = "recount" /\ req[p].op = "markRead"
    /\ LET updatedMessage == FindMessage(req[p].id)
           next == ReadStatus(updatedMessage, RecipientCount(req[p].message),
                              req[p].updatedStatus)
       IN IF next # "none"
          THEN /\ req' = [req EXCEPT ![p].pc = "promote", ![p].updatedStatus = next]
               /\ UNCHANGED events
          ELSE /\ req' = [req EXCEPT ![p].pc = "final"]
               /\ events' = Append(events, StatusEvent(req[p].message.senderId,
                                     req[p].id, "read", req[p].targetUserId))
    /\ UNCHANGED <<members, messages, nreq, started, responses, callVars, sseVars,
                   convVars, qrVars>>

MarkReadPromote(p) ==
    /\ req[p].pc = "promote" /\ req[p].op = "markRead"
    /\ messages' = [messages EXCEPT ![req[p].id].status = req[p].updatedStatus]
    /\ events' = Append(events, StatusEvent(req[p].message.senderId,
                          req[p].id, "read", req[p].targetUserId))
    /\ req' = [req EXCEPT ![p].pc = "final"]
    /\ UNCHANGED <<members, nreq, started, responses, callVars, sseVars,
                   convVars, qrVars>>

MarkReadRespond(p) ==
    /\ req[p].pc = "final" /\ req[p].op = "markRead"
    /\ responses' = responses \cup
            {Response(<<"markRead", req[p].id, req[p].targetUserId>>, 200)}
    /\ req' = [req EXCEPT ![p] = Idle]
    /\ UNCHANGED <<members, messages, events, nreq, started, callVars, sseVars,
                   convVars, qrVars>>

(***************************************************************************)
(* Specifications of the message core.                                     *)
(***************************************************************************)
\* createConversation stores the creator and at least one other user.
MessageInit ==
    /\ members \in StoredConversations
    /\ messages = <<>>
    /\ req = [p \in Procs |-> Idle]
    /\ events = <<>>
    /\ nreq = 0
    /\ started = <<>>
    /\ responses = {}

MessageNext ==
    \/ \E u \in Senders : SendMessage(u)
    \/ \E p \in Procs, u \in Users, t \in Users \cup {Absent}, id \in MsgIds :
          MarkDeliveredFind(p, u, t, id)
    \/ \E p \in Procs : MarkDeliveredConnect(p)
    \/ \E p \in Procs : MarkDeliveredRecount(p)
    \/ \E p \in Procs : MarkDeliveredPromote(p)
    \/ \E p \in Procs : MarkDeliveredRespond(p)
    \/ \E p \in Procs, u \in Users, t \in Users \cup {Absent}, id \in MsgIds :
          MarkReadFind(p, u, t, id)
    \/ \E p \in Procs : MarkReadConnect(p)
    \/ \E p \in Procs : MarkReadRecount(p)
    \/ \E p \in Procs : MarkReadPromote(p)
    \/ \E p \in Procs : MarkReadRespond(p)

\* The same handlers when requests are served one at a time: a request is
\* taken up only when no handler is in flight.
SerialNext ==
    \/ \E u \in Senders : SendMessage(u)
    \/ \E p \in Procs, u \in Users, t \in Users \cup {Absent}, id \in MsgIds :
          AllIdle /\ MarkDeliveredFind(p, u, t, id)
    \/ \E p \in Procs : MarkDeliveredConnect(p)
    \/ \E p \in Procs : MarkDeliveredRecount(p)
    \/ \E p \in Procs : MarkDeliveredPromote(p)
    \/ \E p \in Procs : MarkDeliveredRespond(p)
    \/ \E p \in Procs, u \in Users, t \in Users \cup {Absent}, id \in MsgIds :
          AllIdle /\ MarkReadFind(p, u, t, id)
    \/ \E p \in Procs : MarkReadConnect(p)
    \/ \E p \in Procs : MarkReadRecount(p)
    \/ \E p \in Procs : MarkReadPromote(p)
    \/ \E p \in Procs : MarkReadRespond(p)

(***************************************************************************)
(* Call signaling: CallController (src/src/controllers/callController.ts). *)
(* The handlers touch no call but the one whose id they are given, so the  *)
(* model follows one call: id 1 is the one initiateCall stores, id 2 is an *)
(* id no call ever has.  User 1 calls user 2, or user 1; user 3 is neither. *)
(***************************************************************************)
MaxCallRequests == 2 \* reportRinging / acceptCall / endCall requests served
MaxCalls == 2        \* calls initiated when room ids are studied

\* The clock counts half seconds.
Times == 0 .. 2

StoredCallIds == {1}
CallIds == {1, 2}
Callers == {1}
Receivers == {Absent, 1, 2}
\* A string field of a request body that was not supplied.
Undefined == "undefined"
CallTypes == {Undefined, "VOICE"}

\* enum CallStatus (@prisma/client)
CallStatus ==
    {"INITIATED", "RINGING", "ACCEPTED", "REJECTED", "ENDED", "MISSED", "BUSY"}

\* A nullable column: Null, or Some(v).
Null == <<>>
Some(v) == <<v>>

NoCall == [callerId |-> Absent, receiverId |-> Absent, type |-> "none",
           roomId |-> <<>>, status |-> "none",
           startTime |-> Null, endTime |-> Null, duration |-> Null]

CIdle == [pc |-> "idle", op |-> "none", callId |-> 0, userId |-> Absent,
          call |-> NoCall, time |-> 0, duration |-> 0, finalStatus |-> "none"]

CFree(p) ==
    /\ creq[p].pc = "idle"
    /\ (p = "h2" => creq["h1"].pc # "idle")

\* res.status(code).json(...)
CallResponse(op, callId, userId, code) ==
    [op |-> op, callId |-> callId, userId |-> userId, code |-> code]

\* prisma.call.findUnique({ where: { id: callId } }): null when no row has it.
FindCall(callId) == IF callId \in DOMAIN calls THEN calls[callId] ELSE NoCall

\* prisma.call.create({ data }): the store adds the record, as the durable
\* store of the design does (no column of a call is constrained).
CreateCall(call) == Append(calls, call)

\* callerId.substring(0, 8): the ids of users 1 and 3 begin with the same
\* eight characters, the id of user 2 with others.
Substring8(userId) == IF userId = 3 THEN 1 ELSE userId

\* `room-${callerId.substring(0, 8)}-${Date.now()}`
RoomId(callerId, time) == <<"room", Substring8(callerId), time>>

\* sseManager.sendEventToUser(to, name, { callId, ... })
CallEvent(to, name, callId, roomId, status, duration) ==
    [to |-> to, name |-> name, callId |-> callId, roomId |-> roomId,
     status |-> status, duration |-> duration]

\* Time passes.
Tick ==
    /\ now + 1 \in Times
    /\ now' = now + 1
    /\ UNCHANGED <<calls, creq, cevents, credentials, ncreq, cresponse,
                   msgVars, sseVars, convVars, qrVars>>

(***************************************************************************)
(* CallController.initiateCall                                             *)
(***************************************************************************)
\* A variant of the test that looks at receiverId alone.
MissingReceiver(receiverId, type) == receiverId = Absent

\* if (!receiverId || !type)
MissingField(receiverId, type) == receiverId = Absent \/ type = Undefined

\* The request arrives: 400, or the row is created in INITIATED.
InitiateCallCreate(p, callerId, receiverId, type) ==
    /\ CFree(p)
    /\ IF MissingField(receiverId, type)
       THEN /\ cresponse' = CallResponse("initiate", 0, callerId, 400)
            /\ UNCHANGED <<calls, creq>>
       ELSE LET call == [callerId |-> callerId, receiverId |-> receiverId,
                         type |-> type, roomId |-> RoomId(callerId, now),
                         status |-> "INITIATED", startTime |-> Null,
                         endTime |-> Null, duration |-> Null]
            IN /\ calls' = CreateCall(call)
               /\ creq' = [creq EXCEPT ![p] =
                     [CIdle EXCEPT !.pc = "token", !.op = "initiate",
                                   !.callId = Len(calls) + 1,
                                   !.userId = callerId, !.call = call]]
               /\ UNCHANGED cresponse
    /\ UNCHANGED <<cevents, now, credentials, ncreq, msgVars, sseVars,
                   convVars, qrVars>>

\* A variant of the step below that notifies the caller, not the receiver.
InitiateCallTokenToCaller(p) ==
    /\ creq[p].pc = "token"
    /\ creq[p].op = "initiate"
    /\ IF credentials
       THEN /\ cevents' = Append(cevents,
                  CallEvent(creq[p].userId, "call:incoming",
                            creq[p].callId, creq[p].call.roomId, "none", 0))
            /\ cresponse' = CallResponse("initiate", creq[p].callId, creq[p].userId, 201)
       ELSE /\ cresponse' = CallResponse("initiate", creq[p].callId, creq[p].userId, 500)
            /\ UNCHANGED cevents
    /\ creq' = [creq EXCEPT ![p] = CIdle]
    /\ UNCHANGED <<calls, now, credentials, ncreq, msgVars, sseVars,
                   convVars, qrVars>>

\* prisma.user.findUnique and liveKitService.generateToken answer (neither
\* touches the calls table): the token, then call:incoming and 201; or
\* generateToken throws and the catch answers 500.
InitiateCallToken(p) ==
    /\ creq[p].pc = "token"
    /\ creq[p].op = "initiate"
    /\ IF credentials
       THEN /\ cevents' = Append(cevents,
                  CallEvent(creq[p].call.receiverId, "call:incoming",
                            creq[p].callId, creq[p].call.roomId, "none", 0))
            /\ cresponse' = CallResponse("initiate", creq[p].callId, creq[p].userId, 201)
       ELSE /\ cresponse' = CallResponse("initiate", creq[p].callId, creq[p].userId, 500)
            /\ UNCHANGED cevents
    /\ creq' = [creq EXCEPT ![p] = CIdle]
    /\ UNCHANGED <<calls, now, credentials, ncreq, msgVars, sseVars,
                   convVars, qrVars>>

(***************************************************************************)
(* CallController.acceptCall                                               *)
(***************************************************************************)
\* A variant of the test that lets the caller through as well.
NeitherReceiverNorCaller(call, userId) ==
    call = NoCall \/ (call.receiverId # userId /\ call.callerId # userId)

\* if (!call || call.receiverId !== userId)
NotReceiver(call, userId) == call = NoCall \/ call.receiverId # userId

\* The request arrives, findUnique answers: 404, or on to the update, whose
\* data (startTime: new Date()) is built now.
AcceptCallFind(p, userId, callId) ==
    /\ CFree(p)
    /\ ncreq < MaxCallRequests
    /\ ncreq' = ncreq + 1
    /\ LET call == FindCall(callId)
       IN IF NotReceiver(call, userId)
          THEN /\ cresponse' = CallResponse("accept", callId, userId, 404)
               /\ UNCHANGED creq
          ELSE /\ creq' = [creq EXCEPT ![p] =
                     [CIdle EXCEPT !.pc = "update", !.op = "accept",
                                   !.callId = callId, !.userId = userId,
                                   !.call = call, !.time = now]]
               /\ UNCHANGED cresponse
    /\ UNCHANGED <<calls, cevents, now, credentials, msgVars, sseVars,
                   convVars, qrVars>>

\* prisma.call.update({ data: { status: ACCEPTED, startTime } }) takes effect.
AcceptCallUpdate(p) ==
    /\ creq[p].pc = "update"
    /\ creq[p].op = "accept"
    /\ calls' = [calls EXCEPT ![creq[p].callId].status = "ACCEPTED",
                              ![creq[p].callId].startTime = Some(creq[p].time)]
    /\ creq' = [creq EXCEPT ![p].pc = "token"]
    /\ UNCHANGED <<cevents, now, credentials, ncreq, cresponse, msgVars, sseVars,
                   convVars, qrVars>>

\* prisma.user.findUnique and generateToken answer: the token, then
\* call:accepted to the caller and 200; or generateToken throws, 500.
AcceptCallToken(p) ==
    /\ creq[p].pc = "token"
    /\ creq[p].op = "accept"
    /\ IF credentials
       THEN /\ cevents' = Append(cevents,
                  CallEvent(creq[p].call.callerId, "call:accepted",
                            creq[p].callId, <<>>, "none", 0))
            /\ cresponse' = CallResponse("accept", creq[p].callId, creq[p].userId, 200)
       ELSE /\ cresponse' = CallResponse("accept", creq[p].callId, creq[p].userId, 500)
            /\ UNCHANGED cevents
    /\ creq' = [creq EXCEPT ![p] = CIdle]
    /\ UNCHANGED <<calls, now, credentials, ncreq, msgVars, sseVars,
                   convVars, qrVars>>

(***************************************************************************)
(* CallController.endCall                                                  *)
(***************************************************************************)
\* Math.floor((endTime.getTime() - call.startTime.getTime()) / 1000), or 0
\* when call.startTime is null (the clock counts half seconds).
\* A variant of the duration that is not brought to whole seconds.
DurationInTicks(call, endTime) ==
    IF call.startTime # Null THEN endTime - call.startTime[1] ELSE 0

Duration(call, endTime) ==
    IF call.startTime # Null THEN (endTime - call.startTime[1]) \div 2 ELSE 0

\* const finalStatus = status || CallStatus.ENDED;
FinalStatus(status) == IF status # Undefined THEN status ELSE "ENDED"

\* A variant of targetId with the two branches exchanged.
TargetIdExchanged(call, userId) ==
    IF call.callerId = userId THEN call.callerId ELSE call.receiverId

\* const targetId = isCaller ? call.receiverId : call.callerId;
TargetId(call, userId) ==
    IF call.callerId = userId THEN call.receiverId ELSE call.callerId

\* The request arrives, findUnique answers: 404, 403, or on to the update
\* with endTime, duration and finalStatus computed from what was read.
EndCallFind(p, userId, callId, status) ==
    /\ CFree(p)
    /\ ncreq < MaxCallRequests
    /\ ncreq' = ncreq + 1
    /\ LET call == FindCall(callId)
       IN IF call = NoCall
          THEN /\ cresponse' = CallResponse("end", callId, userId, 404)
               /\ UNCHANGED creq
          ELSE IF call.callerId # userId /\ call.receiverId # userId
          THEN /\ cresponse' = CallResponse("end", callId, userId, 403)
               /\ UNCHANGED creq
          ELSE /\ creq' = [creq EXCEPT ![p] =
                     [CIdle EXCEPT !.pc = "update", !.op = "end",
                                   !.callId = callId, !.userId = userId,
                                   !.call = call, !.time = now,
                                   !.duration = Duration(call, now),
                                   !.finalStatus = FinalStatus(status)]]
               /\ UNCHANGED cresponse
    /\ UNCHANGED <<calls, cevents, now, credentials, msgVars, sseVars,
                   convVars, qrVars>>

\* prisma.call.update({ data: { status: finalStatus, endTime, duration } })
\* takes effect; call:ended goes to the other party; 200.
EndCallUpdate(p) ==
    /\ creq[p].pc = "update"
    /\ creq[p].op = "end"
    /\ calls' = [calls EXCEPT
          ![creq[p].callId].status = creq[p].finalStatus,
          ![creq[p].callId].endTime = Some(creq[p].time),
          ![creq[p].callId].duration =
              IF creq[p].call.startTime # Null THEN Some(creq[p].duration) ELSE Null]
    /\ cevents' = Append(cevents,
          CallEvent(TargetId(creq[p].call, creq[p].userId), "call:ended",
                    creq[p].callId, <<>>, creq[p].finalStatus, creq[p].duration))
    /\ cresponse' = CallResponse("end", creq[p].callId, creq[p].userId, 200)
    /\ creq' = [creq EXCEPT ![p] = CIdle]
    /\ UNCHANGED <<now, credentials, ncreq, msgVars, sseVars, convVars, qrVars>>

(***************************************************************************)
(* CallController.reportRinging                                            *)
(***************************************************************************)
\* The request arrives, findUnique answers: 404, or on to the update.
ReportRingingFind(p, userId, callId) ==
    /\ CFree(p)
    /\ ncreq < MaxCallRequests
    /\ ncreq' = ncreq + 1
    /\ LET call == FindCall(callId)
       IN IF NotReceiver(call, userId)
          THEN /\ cresponse' = CallResponse("ringing", callId, userId, 404)
               /\ UNCHANGED creq
          ELSE /\ creq' = [creq EXCEPT ![p] =
                     [CIdle EXCEPT !.pc = "update", !.op = "ringing",
                                   !.callId = callId, !.userId = userId,
                                   !.call = call]]
               /\ UNCHANGED cresponse
    /\ UNCHANGED <<calls, cevents, now, credentials, msgVars, sseVars,
                   convVars, qrVars>>

\* prisma.call.update({ data: { status: RINGING } }) takes effect;
\* call:ringing goes to the caller; 200.
ReportRingingUpdate(p) ==
    /\ creq[p].pc = "update"
    /\ creq[p].op = "ringing"
    /\ calls' = [calls EXCEPT ![creq[p].callId].status = "RINGING"]
    /\ cevents' = Append(cevents,
          CallEvent(creq[p].call.callerId, "call:ringing",
                    creq[p].callId, <<>>, "none", 0))
    /\ cresponse' = CallResponse("ringing", creq[p].callId, creq[p].userId, 200)
    /\ creq' = [creq EXCEPT ![p] = CIdle]
    /\ UNCHANGED <<now, credentials, ncreq, msgVars, sseVars, convVars, qrVars>>

(***************************************************************************)
(* The call subsystem.                                                     *)
(***************************************************************************)
\* body.status of POST /calls/end: omitted, or a CallStatus.  endCall passes
\* the value through without looking at it, so a sample is taken: two of the
\* statuses the comment in the code names and one it does not.
EndStatuses == {Undefined, "REJECTED", "BUSY", "ACCEPTED"}

CallInit ==
    /\ calls = <<>>
    /\ creq = [p \in Procs |-> CIdle]
    /\ cevents = <<>>
    /\ now = 0
    /\ credentials \in BOOLEAN
    /\ ncreq = 0
    /\ cresponse = CallResponse("none", 0, Absent, 0)

CallNext ==
    \/ Tick
    \/ \E p \in Procs, u \in Callers, r \in Receivers, t \in CallTypes :
          Len(calls) + 1 \in StoredCallIds /\ InitiateCallCreate(p, u, r, t)
    \/ \E p \in Procs : InitiateCallToken(p)
    \/ \E p \in Procs, u \in Users, id \in CallIds : AcceptCallFind(p, u, id)
    \/ \E p \in Procs : AcceptCallUpdate(p)
    \/ \E p \in Procs : AcceptCallToken(p)
    \/ \E p \in Procs, u \in Users, id \in CallIds, s \in EndStatuses :
          EndCallFind(p, u, id, s)
    \/ \E p \in Procs : EndCallUpdate(p)
    \/ \E p \in Procs, u \in Users, id \in CallIds : ReportRingingFind(p, u, id)
    \/ \E p \in Procs : ReportRingingUpdate(p)

\* Calls being initiated, by any users, and nothing else.
RoomsNext ==
    \/ Tick
    \/ \E p \in Procs, u \in Users, r \in Receivers, t \in CallTypes :
          Len(calls) < MaxCalls /\ InitiateCallCreate(p, u, r, t)
    \/ \E p \in Procs : InitiateCallToken(p)

(***************************************************************************)
(* Conversations: ConversationController.createConversation.               *)
(***************************************************************************)
MaxConversationRequests == 2

\* The users who create conversations, an id no user has, and the memberIds
\* arrays of a request body: any array of up to two ids, repeats included.
Creators == {1, 2}
RequestedMemberIds == Users \cup {4}
MemberIdLists == UNION {[1 .. n -> RequestedMemberIds] : n \in 0 .. 2}

\* body.type and body.title: omitted, or given.
ConversationTypes == {"PRIVATE", "GROUP"}
RequestedTypes == ConversationTypes \cup {Undefined}
Titles == {Undefined, "title"}

Range(seq) == {seq[i] : i \in DOMAIN seq}

CvIdle ==
    [pc |-> "idle", userId |-> Absent, conversationType |-> Undefined,
     memberIds |-> <<>>, id |-> 0]

\* type || (memberIds.length === 1 ? PRIVATE : GROUP)
ConversationType(type, memberIds) ==
    IF type # Undefined THEN type
    ELSE IF Len(memberIds) = 1 THEN "PRIVATE" ELSE "GROUP"

\* prisma.user.findMany({ where: { id: { in: memberIds } } }): the users
\* among the ids, each once.
FindUsers(memberIds) == Range(memberIds) \cap Users

\* The validation of the body, in the order of the code: the first check
\* that fails answers 400.
Invalid(userId, type, title, memberIds) ==
    \/ Len(memberIds) = 0
    \/ ConversationType(type, memberIds) = "GROUP" /\ title = Undefined
    \/ Cardinality(FindUsers(memberIds)) # Len(memberIds)
    \/ userId \in Range(memberIds)

CvResponse(userId, code, alreadyExists, id) ==
    [userId |-> userId, code |-> code, alreadyExists |-> alreadyExists,
     id |-> id]

\* createConversation calls begun so far.
CvStarted ==
    Len(cvresponses) + Cardinality({p \in Procs : cvreq[p].pc # "idle"})

\* The handler up to the answer of user.findMany and the checks on it.
CreateConversationValidate(p, userId, type, title, memberIds) ==
    /\ cvreq[p].pc = "idle"
    /\ CvStarted < MaxConversationRequests
    /\ IF Invalid(userId, type, title, memberIds)
       THEN /\ cvresponses' =
                   Append(cvresponses, CvResponse(userId, 400, FALSE, 0))
            /\ UNCHANGED cvreq
       ELSE /\ cvreq' = [cvreq EXCEPT ![p] =
                   [pc |-> IF ConversationType(type, memberIds) = "PRIVATE"
                           THEN "find" ELSE "create",
                    userId |-> userId,
                    conversationType |-> ConversationType(type, memberIds),
                    memberIds |-> memberIds, id |-> 0]]
            /\ UNCHANGED cvresponses
    /\ UNCHANGED <<conversationRows, cvevents, msgVars, callVars, sseVars,
                   qrVars>>

\* conversation.findFirst({ type: PRIVATE, members: { every: { userId: { in:
\* [userId, memberIds[0]] } } } }): the rows it may return.
FindFirstPrivate(userId, memberId) ==
    {i \in DOMAIN conversationRows :
        /\ conversationRows[i].type = "PRIVATE"
        /\ conversationRows[i].members \subseteq {userId, memberId}}

\* existingConv && members.length === 2 && both ids among the members
IsExisting(i, userId, memberId) ==
    /\ i \in DOMAIN conversationRows
    /\ Cardinality(conversationRows[i].members) = 2
    /\ userId \in conversationRows[i].members
    /\ memberId \in conversationRows[i].members

\* The answer of findFirst: the existing conversation is returned, or the
\* handler goes on to create one.
CreateConversationFind(p) ==
    /\ cvreq[p].pc = "find"
    /\ \E existingConv \in
             IF FindFirstPrivate(cvreq[p].userId, cvreq[p].memberIds[1]) = {}
             THEN {0}
             ELSE FindFirstPrivate(cvreq[p].userId, cvreq[p].memberIds[1]) :
          IF IsExisting(existingConv, cvreq[p].userId, cvreq[p].memberIds[1])
          THEN /\ cvresponses' = Append(cvresponses,
                      CvResponse(cvreq[p].userId, 200, TRUE, existingConv))
               /\ cvreq' = [cvreq EXCEPT ![p] = CvIdle]
          ELSE /\ cvreq' = [cvreq EXCEPT ![p].pc = "create"]
               /\ UNCHANGED cvresponses
    /\ UNCHANGED <<conversationRows, cvevents, msgVars, callVars, sseVars,
                   qrVars>>

\* allMemberIds = [userId, ...memberIds]
AllMembers(userId, memberIds) == <<userId>> \o memberIds

\* prisma.conversation.create with one member row per id of allMemberIds.
CreateConversationCreate(p) ==
    /\ cvreq[p].pc = "create"
    /\ conversationRows' = Append(conversationRows,
           [type |-> cvreq[p].conversationType,
            members |->
                Range(AllMembers(cvreq[p].userId, cvreq[p].memberIds))])
    /\ cvreq' = [cvreq EXCEPT ![p].pc = "notify",
                              ![p].id = Len(conversationRows) + 1]
    /\ UNCHANGED <<cvevents, cvresponses, msgVars, callVars, sseVars, qrVars>>

ConversationNewEvent(memberId, id) ==
    [to |-> memberId, event |-> "conversation:new", conversationId |-> id]

\* conversation:new to every id of allMemberIds but the creator, in order,
\* and the answer 201.
CreateConversationNotify(p) ==
    /\ cvreq[p].pc = "notify"
    /\ cvevents' = cvevents \o
           [i \in 1 .. Len(cvreq[p].memberIds) |->
               ConversationNewEvent(cvreq[p].memberIds[i], cvreq[p].id)]
    /\ cvresponses' = Append(cvresponses,
           CvResponse(cvreq[p].userId, 201, FALSE, cvreq[p].id))
    /\ cvreq' = [cvreq EXCEPT ![p] = CvIdle]
    /\ UNCHANGED <<conversationRows, msgVars, callVars, sseVars, qrVars>>

ConversationInit ==
    /\ conversationRows = <<>>
    /\ cvreq = [p \in Procs |-> CvIdle]
    /\ cvevents = <<>>
    /\ cvresponses = <<>>

ConversationNext ==
    \/ \E p \in Procs, u \in Creators, t \in RequestedTypes, title \in Titles,
          m \in MemberIdLists : CreateConversationValidate(p, u, t, title, m)
    \/ \E p \in Procs : CreateConversationFind(p)
    \/ \E p \in Procs : CreateConversationCreate(p)
    \/ \E p \in Procs : CreateConversationNotify(p)

(***************************************************************************)
(* Desktop login by QR code: AuthService.scanQRCode and                    *)
(* confirmQRChallenge, on one challenge that createQRChallenge has stored. *)
(***************************************************************************)
MaxQrRequests == 3

\* The user ids scanQRCode is given: users, and an id no user has.
Scanners == {1, 2, 4}

\* The challenge row and its absence (findUnique answers null).
NoChallenge == [id |-> 0, expiresAt |-> 0, authorizedUserId |-> Null]

\* createQRChallenge: the row as created, not authorized, expiring one tick
\* of the clock after its creation at time 0.
CreatedChallenge == [id |-> 1, expiresAt |-> 1, authorizedUserId |-> Null]

QIdle == [pc |-> "idle", op |-> "none", userId |-> Absent,
          challenge |-> NoChallenge]

QrResponse(op, userId, success, error) ==
    [op |-> op, userId |-> userId, success |-> success, error |-> error]

\* scan / confirm calls begun so far.
QrStarted ==
    Len(qresponses) + Cardinality({p \in Procs : qreq[p].pc # "idle"})

\* new Date() > challenge.expiresAt
Expired(row) == now > row.expiresAt

\* scanQRCode up to the answer of qRChallenge.findUnique({ token }).
ScanQRCodeFind(p, userId) ==
    /\ qreq[p].pc = "idle"
    /\ QrStarted < MaxQrRequests
    /\ qreq' = [qreq EXCEPT ![p] =
           [pc |-> "check", op |-> "scan", userId |-> userId,
            challenge |-> challenge]]
    /\ UNCHANGED <<challenge, refreshTokens, qresponses, msgVars, callVars,
                   sseVars, convVars>>

\* The checks of scanQRCode on the challenge it read, in order.
ScanError(row) ==
    IF row = NoChallenge THEN "Invalid token"
    ELSE IF Expired(row) THEN "Token expired"
    ELSE IF row.authorizedUserId # Null THEN "Token already used"
    ELSE "none"

\* The checks, then qRChallenge.update({ where: { id }, data: {
\* authorizedUserId: userId } }), which throws when the row is gone.
ScanQRCodeUpdate(p) ==
    /\ qreq[p].pc = "check"
    /\ qreq[p].op = "scan"
    /\ IF ScanError(qreq[p].challenge) # "none"
       THEN /\ qresponses' = Append(qresponses,
                   QrResponse("scan", qreq[p].userId, FALSE,
                              ScanError(qreq[p].challenge)))
            /\ UNCHANGED challenge
       ELSE IF challenge = NoChallenge
       THEN /\ qresponses' = Append(qresponses,
                   QrResponse("scan", qreq[p].userId, FALSE, "throws"))
            /\ UNCHANGED challenge
       ELSE /\ challenge' =
                   [challenge EXCEPT !.authorizedUserId = Some(qreq[p].userId)]
            /\ qresponses' = Append(qresponses,
                   QrResponse("scan", qreq[p].userId, TRUE, "none"))
    /\ qreq' = [qreq EXCEPT ![p] = QIdle]
    /\ UNCHANGED <<refreshTokens, msgVars, callVars, sseVars, convVars>>

\* confirmQRChallenge up to the answer of qRChallenge.findUnique({ id }).
ConfirmQRChallengeFind(p) ==
    /\ qreq[p].pc = "idle"
    /\ QrStarted < MaxQrRequests
    /\ qreq' = [qreq EXCEPT ![p] =
           [pc |-> "check", op |-> "confirm", userId |-> Absent,
            challenge |-> challenge]]
    /\ UNCHANGED <<challenge, refreshTokens, qresponses, msgVars, callVars,
                   sseVars, convVars>>

\* The checks of confirmQRChallenge on the challenge it read, in order, the
\* last one on the answer of user.findUnique.
ConfirmError(row) ==
    IF row = NoChallenge THEN "Invalid challenge"
    ELSE IF Expired(row) THEN "Challenge expired"
    ELSE IF row.authorizedUserId = Null
         THEN "Challenge not authorized by mobile device"
    ELSE IF row.authorizedUserId[1] \notin Users THEN "User not found"
    ELSE "none"

\* The checks, then refreshToken.create for the desktop device.
ConfirmQRChallengeCreate(p) ==
    /\ qreq[p].pc = "check"
    /\ qreq[p].op = "confirm"
    /\ IF ConfirmError(qreq[p].challenge) # "none"
       THEN /\ qresponses' = Append(qresponses,
                   QrResponse("confirm", Absent, FALSE,
                              ConfirmError(qreq[p].challenge)))
            /\ qreq' = [qreq EXCEPT ![p] = QIdle]
            /\ UNCHANGED refreshTokens
       ELSE /\ refreshTokens' = Append(refreshTokens,
                   [userId |-> qreq[p].challenge.authorizedUserId[1],
                    deviceType |-> "DESKTOP"])
            /\ qreq' = [qreq EXCEPT
                   ![p].pc = "delete",
                   ![p].userId = qreq[p].challenge.authorizedUserId[1]]
            /\ UNCHANGED qresponses
    /\ UNCHANGED <<challenge, msgVars, callVars, sseVars, convVars>>

\* qRChallenge.delete({ where: { id } }), which throws when the row is gone,
\* and the session returned.
ConfirmQRChallengeDelete(p) ==
    /\ qreq[p].pc = "delete"
    /\ IF challenge = NoChallenge
       THEN /\ qresponses' = Append(qresponses,
                   QrResponse("confirm", qreq[p].userId, FALSE, "throws"))
            /\ UNCHANGED challenge
       ELSE /\ challenge' = NoChallenge
            /\ qresponses' = Append(qresponses,
                   QrResponse("confirm", qreq[p].userId, TRUE, "none"))
    /\ qreq' = [qreq EXCEPT ![p] = QIdle]
    /\ UNCHANGED <<refreshTokens, msgVars, callVars, sseVars, convVars>>

QrInit ==
    /\ challenge = CreatedChallenge
    /\ refreshTokens = <<>>
    /\ qreq = [p \in Procs |-> QIdle]
    /\ qresponses = <<>>

QrNext ==
    \/ Tick
    \/ \E p \in Procs, u \in Scanners : ScanQRCodeFind(p, u)
    \/ \E p \in Procs : ScanQRCodeUpdate(p)
    \/ \E p \in Procs : ConfirmQRChallengeFind(p)
    \/ \E p \in Procs : ConfirmQRChallengeCreate(p)
    \/ \E p \in Procs : ConfirmQRChallengeDelete(p)

\* The whole server.
Init == MessageInit /\ CallInit /\ SseInit /\ ConversationInit /\ QrInit
Next == MessageNext \/ CallNext \/ ConversationNext \/ QrNext
Spec == Init /\ [][Next]_vars

\* The store gains a conversation_members row for the conversation of a
\* message already sent (no handler of the controllers does this; the
\* handlers read whatever membership the store holds).
AddMember(userId) ==
    /\ messages # <<>>
    /\ userId \notin members
    /\ members' = members \cup {userId}
    /\ UNCHANGED <<messages, req, events, nreq, started, responses,
                   callVars, sseVars, convVars, qrVars>>

\* The subsystems one at a time, the other at rest: concurrent
\* acknowledgments; acknowledgments served one at a time; calls; initiations.
InitMessages == Init /\ credentials = TRUE /\ members \in Conversations
InitCalls == Init /\ members = {1, 2}
SpecMessages == InitMessages /\ [][MessageNext]_vars
SpecSerial == InitMessages /\ [][SerialNext]_vars

\* Acknowledgments served one at a time while the membership grows.
MembersNext ==
    \/ SerialNext
    \/ \E u \in Users : AddMember(u)
SpecMembers == InitMessages /\ [][MembersNext]_vars
SpecCalls == InitCalls /\ [][CallNext]_vars
SpecRooms == InitCalls /\ [][RoomsNext]_vars

\* The registry and the broadcast manager alone; the same with the channel
\* handing over every copy it holds (at-least-once delivery).
InitBroadcast == Init /\ credentials = TRUE /\ members = {1, 2}
SpecBroadcast == InitBroadcast /\ [][SseNext]_vars
SpecBroadcastFair ==
    SpecBroadcast /\ WF_vars(\E m \in channel : Receive(m, FALSE))

\* sendMessage in any stored conversation, while streams are opened, die and
\* are unregistered.
InitSend == Init /\ credentials = TRUE
SendNext ==
    \/ \E s \in Servers, u \in Listeners : Register(s, u)
    \/ \E c \in RequestedIds : Unregister(c)
    \/ \E c \in ConnectionIds : Close(c)
    \/ \E u \in Senders : SendMessage(u)
SpecSend == InitSend /\ [][SendNext]_vars

\* createConversation alone, its calls overlapping; the QR login alone, its
\* calls overlapping while the clock runs.
InitConversations == Init /\ credentials = TRUE /\ members = {1, 2}
SpecConversations == InitConversations /\ [][ConversationNext]_vars
SpecQr == InitConversations /\ [][QrNext]_vars

(***************************************************************************)
(* What the claims speak of.                                               *)
(***************************************************************************)
Sent == messages # <<>>

\* N: the non-sender members of the message's conversation.
NonSenderMembers == RecipientCount(FindMessage(1))

\* The distinct users whose markDelivered / markRead on the message was
\* answered with success.
DeliveredCallers == {u \in Users : Completed(<<"markDelivered", 1, u>>)}
ReadCallers == {u \in Users : Completed(<<"markRead", 1, u>>)}

\* The message:status events sent for one (message, user, kind).
StatusEventsFor(id, kind, user) ==
    {i \in DOMAIN events : /\ events[i].name = "message:status"
                           /\ events[i].messageId = id
                           /\ events[i].status = kind
                           /\ events[i].userId = user}

\* The step is the arrival of a request; ArrivingCall is its <<op, id, user>>.
Arrival == Len(started') > Len(started)
ArrivingCall == started'[Len(started')]

\* C1: over any sequence of completed markDelivered and markRead calls, by
\* any acting users, the stored status of a message never decreases in the
\* order SENT < DELIVERED < READ.
C1_StatusNeverDecreases ==
    [][\A i \in DOMAIN messages :
          Rank(messages'[i].status) >= Rank(messages[i].status)]_vars

\* The call that makes the number of distinct successful markDelivered
\* (markRead) callers reach N has just been answered.
DeliveredReachesN ==
    /\ Sent
    /\ Cardinality(DeliveredCallers) < NonSenderMembers
    /\ Cardinality(DeliveredCallers') >= NonSenderMembers
ReadReachesN ==
    /\ Sent
    /\ Cardinality(ReadCallers) < NonSenderMembers
    /\ Cardinality(ReadCallers') >= NonSenderMembers

NoReadStarted == \A k \in DOMAIN started : started[k][1] # "markRead"

\* C2 as stated: with calls one at a time, once N distinct users have
\* completed markDelivered the status is DELIVERED, and once N distinct users
\* have completed markRead the status is READ.
C2_AsStated ==
    [][/\ DeliveredReachesN => messages'[1].status = "DELIVERED"
       /\ ReadReachesN => messages'[1].status = "READ"]_vars

\* C2 as amended: with calls one at a time, once N distinct users have
\* completed markDelivered the status is DELIVERED, or READ when markRead
\* calls made before have promoted it (DELIVERED when none was made); once N
\* distinct users have completed markRead the status is READ.
C2_PromotedAtN ==
    [][/\ DeliveredReachesN =>
            /\ messages'[1].status \in {"DELIVERED", "READ"}
            /\ NoReadStarted => messages'[1].status = "DELIVERED"
       /\ ReadReachesN => messages'[1].status = "READ"]_vars

\* Two recipients, both have completed markRead, the message is READ.
C2_Witness ==
    /\ Sent /\ AllIdle
    /\ NonSenderMembers = 2
    /\ Cardinality(ReadCallers) = 2
    /\ messages[1].status = "READ"

\* C3: a markDelivered / markRead call with the (messageId, userId) of a call
\* that has completed is answered at once with success, leaves deliveredTo,
\* readBy and status as they are and emits no event.
C3_SecondCallIsNoOp ==
    [][(Arrival /\ Completed(ArrivingCall)) =>
          /\ messages' = messages
          /\ events' = events
          /\ req' = req
          /\ Response(ArrivingCall, 200) \in responses']_vars

\* The same call was made twice and answered twice, and one event was sent
\* for it (the run that serves the two one after the other ends here).
C3_Witness ==
    /\ Sent /\ AllIdle
    /\ Len(started) = 2
    /\ started[1] = started[2]
    /\ Completed(started[1])
    /\ Cardinality(StatusEventsFor(1, "delivered", started[1][3])) = 1
    /\ Len(events) = Cardinality(members)

\* C4: in every state, readBy is a subset of deliveredTo.
C4_ReadByWithinDeliveredTo ==
    \A i \in DOMAIN messages : messages[i].readBy \subseteq messages[i].deliveredTo

\* A user is in readBy and in deliveredTo though no markDelivered was ever
\* called for that user.
C4_Witness ==
    /\ Sent
    /\ \E u \in messages[1].readBy :
          /\ u \in messages[1].deliveredTo
          /\ \A k \in DOMAIN started : started[k] # <<"markDelivered", 1, u>>

(***************************************************************************)
(* The handlers run alone, start to end, as functions on the message (with *)
(* its conversation's members, as findUnique returns it).                  *)
(***************************************************************************)
MarkDeliveredAlone(m, targetUserId) ==
    IF AlreadyDelivered(m, targetUserId) THEN m
    ELSE LET connected == [m EXCEPT !.deliveredTo = @ \cup {targetUserId}]
         IN IF AllDelivered(connected, RecipientCount(m))
            THEN [connected EXCEPT !.status = "DELIVERED"]
            ELSE connected

MarkReadAlone(m, targetUserId) ==
    IF AlreadyRead(m, targetUserId) THEN m
    ELSE LET connected == ReadUpdate(m, m, targetUserId)
             next == ReadStatus(connected, RecipientCount(m), m.status)
         IN IF next # "none" THEN [connected EXCEPT !.status = next]
            ELSE connected

CallAlone(m, call) ==
    IF call[1] = "markDelivered" THEN MarkDeliveredAlone(m, call[3])
    ELSE MarkReadAlone(m, call[3])

\* The messages the calls started[i], i in `left`, can leave behind when they
\* run one after the other from m, in any order.
RECURSIVE SerialOutcomes(_, _)
SerialOutcomes(m, left) ==
    IF left = {} THEN {m}
    ELSE UNION {SerialOutcomes(CallAlone(m, started[i]), left \ {i}) : i \in left}

\* The message as sendMessage stored it.
FreshMessage ==
    [FindMessage(1) EXCEPT !.status = "SENT", !.deliveredTo = {}, !.readBy = {}]

\* Every call made named the message and found it.
AllCallsFoundMessage ==
    /\ \A k \in DOMAIN started : started[k][2] = 1
    /\ \A r \in responses : r.code # 404

\* In SpecSerial the handlers' steps compose to CallAlone, call after call.
RECURSIVE InOrder(_, _)
InOrder(m, k) ==
    IF k > Len(started) THEN m ELSE InOrder(CallAlone(m, started[k]), k + 1)
SerialRunsAreCallAlone ==
    (Sent /\ AllIdle /\ AllCallsFoundMessage) => FindMessage(1) = InOrder(FreshMessage, 1)

\* C5: once the concurrently running markDelivered and markRead calls on a
\* message have all completed, the stored status is the status some serial
\* order of the same calls produces.
C5_StatusIsSomeSerialOutcome ==
    (Sent /\ AllIdle /\ AllCallsFoundMessage) =>
        messages[1].status \in
            {o.status : o \in SerialOutcomes(FreshMessage, DOMAIN started)}

\* C6: the sender is sent at most one message:status event for one
\* (message, user, kind), also when calls for it overlap.
C6_AtMostOneStatusEvent ==
    \A id \in MsgIds, u \in Users, kind \in {"delivered", "read"} :
        Cardinality(StatusEventsFor(id, kind, u)) <= 1

\* C7: with N >= 2 non-sender members, the status stays SENT as long as fewer
\* than N distinct users are in deliveredTo.
C7_SentUntilAllDelivered ==
    (Sent /\ NonSenderMembers >= 2
          /\ Cardinality(messages[1].deliveredTo) < NonSenderMembers)
        => messages[1].status = "SENT"

\* C8: a markDelivered / markRead call naming a messageId no message has is
\* answered 404 at once, changes no message and emits no event.
C8_UnknownMessageIsNotFound ==
    [][(Arrival /\ ArrivingCall[2] \notin DOMAIN messages) =>
          /\ Response(ArrivingCall, 404) \in responses'
          /\ Response(ArrivingCall, 200) \notin responses'
          /\ messages' = messages
          /\ events' = events
          /\ req' = req]_vars

\* A message with an acknowledgment on it is stored, and a call naming the
\* id no message has was answered 404.
C8_Witness ==
    /\ Sent
    /\ messages[1].deliveredTo # {}
    /\ \E r \in responses : r.code = 404 /\ r.call[2] = 2

\* C9: the user a handler has written to deliveredTo / readBy (and reports
\* in the event) is the authenticated caller of the request it serves.
C9_AckIsForAuthenticatedCaller ==
    \A p \in Procs :
        req[p].pc \in {"recount", "promote", "final"}
            => req[p].targetUserId = req[p].userId

\* A call's terminal statuses.
TerminalStatuses == {"ENDED", "REJECTED", "MISSED", "BUSY"}

\* C10: a reportRinging, accept or end call made when the call's status is
\* terminal (the handler read it so) does not change the status: its update
\* leaves the stored status at the terminal value.
C10_TerminalStatusIsFinal ==
    [][\A p \in Procs :
          (/\ creq[p].pc = "update"
           /\ creq[p].call.status \in TerminalStatuses
           /\ creq'[p].pc # "update")
              => calls'[creq[p].callId].status = calls[creq[p].callId].status]_vars

\* The step is handler p applying the prisma.call.update of its `op` request.
Updates(p, op) ==
    /\ creq[p].pc = "update"
    /\ creq[p].op = op
    /\ creq'[p].pc # "update"

\* The step is a step of handler p, which serves an `op` request.
Steps(p, op) ==
    /\ creq[p].pc # "idle"
    /\ creq[p].op = op
    /\ creq'[p] # creq[p]

\* The statuses from which reportRinging and accept are valid.
RingingStatuses == {"INITIATED", "RINGING"}

\* C11: an end call made on a call in a terminal status is rejected: the
\* call's status, endTime and duration stay as they are and no call:ended
\* event is sent.
C11_EndOnTerminalIsRejected ==
    [][\A p \in Procs :
          (Steps(p, "end") /\ creq[p].call.status \in TerminalStatuses)
              => /\ calls' = calls
                 /\ cevents' = cevents
                 /\ cresponse'.code # 200]_vars

\* C12: a reportRinging made by the receiver on a call that is neither
\* INITIATED nor RINGING does not set the status to RINGING and sends no
\* call:ringing.
C12_RingingOnlyFromInitiatedOrRinging ==
    [][\A p \in Procs :
          (Steps(p, "ringing") /\ creq[p].call.status \notin RingingStatuses)
              => /\ calls'[creq[p].callId].status # "RINGING"
                 /\ cevents' = cevents]_vars

\* C13: an accept made by the receiver on a call that is neither INITIATED
\* nor RINGING changes neither status nor startTime, gets no token (is not
\* answered with success) and sends no call:accepted.
C13_AcceptOnlyFromInitiatedOrRinging ==
    [][\A p \in Procs :
          (Steps(p, "accept") /\ creq[p].call.status \notin RingingStatuses)
              => /\ calls'[creq[p].callId].status = calls[creq[p].callId].status
                 /\ calls'[creq[p].callId].startTime = calls[creq[p].callId].startTime
                 /\ cevents' = cevents
                 /\ cresponse' # CallResponse("accept", creq[p].callId, creq[p].userId, 200)]_vars

\* C14: the status an end call stores is one of ENDED, REJECTED, MISSED,
\* BUSY, whatever status was requested.
C14_EndStoresTerminalStatus ==
    [][\A p \in Procs :
          Updates(p, "end") => calls'[creq[p].callId].status \in TerminalStatuses]_vars

\* The request r names a call that exists, and its actor may act on it:
\* the receiver for reportRinging and accept, either party for end.
Authorized(r) ==
    /\ r.callId \in DOMAIN calls
    /\ r.op \in {"accept", "ringing"} => r.userId = calls[r.callId].receiverId
    /\ r.op = "end" =>
          r.userId \in {calls[r.callId].callerId, calls[r.callId].receiverId}

\* C15: a reportRinging, accept or end request is taken up only for an
\* existing call and an authorized actor; any other is answered 404 or 403 at
\* once, changing no call and emitting no event; and only handlers of such
\* requests ever change a call or emit an event.
C15_UnauthorizedActorChangesNothing ==
    [][/\ ncreq' = ncreq + 1 =>
            \/ \E p \in Procs : /\ creq[p].pc = "idle"
                                /\ creq'[p].pc # "idle"
                                /\ Authorized(creq'[p])
            \/ /\ creq' = creq
               /\ calls' = calls
               /\ cevents' = cevents
               /\ cresponse'.code \in {403, 404}
       /\ ((calls' # calls \/ cevents' # cevents) /\ Len(calls') = Len(calls)) =>
            \E p \in Procs : Steps(p, creq[p].op) /\ Authorized(creq[p])]_vars

\* The caller's accept of a call to someone else was answered 404; the call
\* is INITIATED as before and only call:incoming was ever sent.
C15_Witness ==
    /\ calls # <<>>
    /\ calls[1].receiverId = 2
    /\ calls[1].status = "INITIATED"
    /\ cresponse = CallResponse("accept", 1, 1, 404)
    /\ \A i \in DOMAIN cevents : cevents[i].name = "call:incoming"

\* The events of name `name` the step sends.
SentNow(name) ==
    {i \in DOMAIN cevents' : i > Len(cevents) /\ cevents'[i].name = name}

\* C16: initiateCall stores the call in INITIATED; the step that answers an
\* initiate with success sends one event, call:incoming with the call's id
\* and room id, to the call's receiver; the step that answers an accept with
\* success sends one event, call:accepted, to the call's caller; and no other
\* step sends a call:incoming or a call:accepted.
C16_InitiateAndAcceptNotifyOnce ==
    [][/\ Len(calls') > Len(calls) =>
            /\ Len(calls') = Len(calls) + 1
            /\ calls'[Len(calls')].status = "INITIATED"
            /\ cevents' = cevents
       /\ \A p \in Procs :
            (Steps(p, "initiate") /\ cresponse'.code = 201) =>
                cevents' = Append(cevents,
                    [to |-> calls[creq[p].callId].receiverId,
                     name |-> "call:incoming", callId |-> creq[p].callId,
                     roomId |-> calls[creq[p].callId].roomId,
                     status |-> "none", duration |-> 0])
       /\ \A p \in Procs :
            (Steps(p, "accept") /\ creq[p].pc = "token" /\ cresponse'.code = 200) =>
                cevents' = Append(cevents,
                    [to |-> calls[creq[p].callId].callerId,
                     name |-> "call:accepted", callId |-> creq[p].callId,
                     roomId |-> <<>>, status |-> "none", duration |-> 0])
       /\ SentNow("call:incoming") # {} =>
            \E p \in Procs : Steps(p, "initiate") /\ cresponse'.code = 201
       /\ SentNow("call:accepted") # {} =>
            \E p \in Procs : Steps(p, "accept") /\ cresponse'.code = 200]_vars

\* User 1 called user 2, user 2 accepted: one call:incoming went to user 2,
\* then one call:accepted to user 1, and nothing else was sent.
C16_Witness ==
    /\ calls # <<>>
    /\ calls[1].status = "ACCEPTED"
    /\ cresponse = CallResponse("accept", 1, 2, 200)
    /\ Len(cevents) = 2
    /\ cevents[1].name = "call:incoming" /\ cevents[1].to = 2
    /\ cevents[2].name = "call:accepted" /\ cevents[2].to = 1

\* C17: no call is ever stored without a receiverId or without a type; the
\* step that answers an initiate with 400 stores no call, starts no handler
\* (no token is asked for) and sends no event.
C17_MissingFieldIsRejected ==
    [][/\ \A i \in DOMAIN calls' :
            calls'[i].receiverId # Absent /\ calls'[i].type # Undefined
       /\ (cresponse'.code = 400 /\ cresponse' # cresponse) =>
            /\ cresponse'.op = "initiate"
            /\ calls' = calls
            /\ creq' = creq
            /\ cevents' = cevents]_vars

\* An initiate was answered 400 and there is no call, no handler in flight
\* and no event.
C17_Witness ==
    /\ cresponse.code = 400
    /\ calls = <<>>
    /\ cevents = <<>>
    /\ \A p \in Procs : creq[p].pc = "idle"

\* C18: any two calls initiateCall has stored have different room ids.
C18_RoomIdsAreUnique ==
    \A i, j \in DOMAIN calls : i # j => calls[i].roomId # calls[j].roomId

\* The call:ended event the end request of handler p is to send: to the
\* party that is not the actor, with the status and duration it stores.
EndedEvent(p) ==
    LET call == calls'[creq[p].callId]
    IN [to |-> IF creq[p].userId = call.callerId
               THEN call.receiverId ELSE call.callerId,
        name |-> "call:ended", callId |-> creq[p].callId, roomId |-> <<>>,
        status |-> call.status,
        duration |-> IF call.duration = Null THEN 0 ELSE call.duration[1]]

\* C19 as stated: the step that completes an end sends one event, call:ended
\* with the final status and duration, to the other party, and the event
\* does not go to the actor.
C19_AsStated ==
    [][\A p \in Procs :
          Updates(p, "end") =>
              /\ cevents' = Append(cevents, EndedEvent(p))
              /\ EndedEvent(p).to # creq[p].userId]_vars

\* C19 as amended: the step that completes an end sends one event,
\* call:ended with the final status and duration, to the receiver when the
\* caller ends and to the caller otherwise; it does not go to the actor
\* unless caller and receiver are the same user.
C19_EndNotifiesOtherParty ==
    [][\A p \in Procs :
          Updates(p, "end") =>
              /\ cevents' = Append(cevents, EndedEvent(p))
              /\ calls[creq[p].callId].callerId # calls[creq[p].callId].receiverId
                    => EndedEvent(p).to # creq[p].userId]_vars

\* User 2 accepted user 1's call and ended it a second later: the last event
\* is call:ended to user 1 with duration 1.
C19_Witness ==
    /\ calls # <<>>
    /\ calls[1].receiverId = 2
    /\ cresponse = CallResponse("end", 1, 2, 200)
    /\ cevents # <<>>
    /\ cevents[Len(cevents)] =
          [to |-> 1, name |-> "call:ended", callId |-> 1, roomId |-> <<>>,
           status |-> "ENDED", duration |-> 1]

\* C20: an accept or reportRinging that read the call before an end
\* completed, and whose update reaches the store after it, is not applied:
\* the call the end left in a terminal status keeps that status.
C20_StaleUpdateIsNotApplied ==
    [][\A p \in Procs :
          (/\ Updates(p, "accept") \/ Updates(p, "ringing")
           /\ creq[p].call.status \notin TerminalStatuses
           /\ calls[creq[p].callId].status \in TerminalStatuses)
              => calls'[creq[p].callId].status = calls[creq[p].callId].status]_vars

(***************************************************************************)
(* sendMessage: recipients and outcome.                                    *)
(***************************************************************************)
\* The step in which sendMessage stores its message.
Sends == Len(messages') > Len(messages)

\* The users the step's new message:new events go to, with multiplicity.
NewEventsTo(u) ==
    {i \in DOMAIN events' :
        /\ i > Len(events)
        /\ events'[i].name = "message:new"
        /\ events'[i].messageId = Len(messages')
        /\ events'[i].to = u}

\* C21: sendMessage by a member of a conversation with at least one other
\* member sends message:new to each member other than the sender exactly
\* once, and to nobody else: not to the sender, not to a non-member.
C21_NewMessageGoesToEveryOtherMember ==
    [][(Sends /\ members \ {messages'[Len(messages')].senderId} # {}) =>
          \A u \in Users :
             Cardinality(NewEventsTo(u)) =
                IF u \in members /\ u # messages'[Len(messages')].senderId
                THEN 1 ELSE 0]_vars

C21_Witness ==
    /\ members = {1, 2, 3}
    /\ Len(messages) = 1
    /\ Len(events) = 2
    /\ events[1].name = "message:new" /\ events[1].to = 2
    /\ events[2].name = "message:new" /\ events[2].to = 3

\* C22 as stated: in a conversation whose only member is the sender, the
\* recipients of the message are the sender alone.
C22_AsStated ==
    [][(Sends /\ members = {messages'[Len(messages')].senderId}) =>
          {u \in Users : NewEventsTo(u) # {}}
             = {messages'[Len(messages')].senderId}]_vars

\* C22: in a conversation whose only member is the sender, the receiver
\* stored with the message is the sender, and message:new is sent to no one.
C22_SoleMemberIsReceiverNotNotified ==
    [][(Sends /\ members = {messages'[Len(messages')].senderId}) =>
          /\ messages'[Len(messages')].receiverId
                = messages'[Len(messages')].senderId
          /\ events' = events]_vars

C22_Witness ==
    /\ members = {1}
    /\ Len(messages) = 1
    /\ messages[1].senderId = 1 /\ messages[1].receiverId = 1
    /\ events = <<>>

\* C23: a valid sendMessage stores its message with status SENT and is
\* answered 201, whatever connections the recipients have: none, live ones,
\* or registered ones whose stream is dead so that the write to them fails.
C23_SendSucceedsWhateverTheConnections ==
    [][Sends =>
          /\ messages'[Len(messages')].status = "SENT"
          /\ responses' \ responses =
                {Response(<<"sendMessage", Len(messages'),
                            messages'[Len(messages')].senderId>>, 201)}]_vars

C23_Witness ==
    /\ members = {1, 2}
    /\ connections = <<>>
    /\ Len(messages) = 1 /\ messages[1].status = "SENT"
    /\ Response(<<"sendMessage", 1, 1>>, 201) \in responses

(***************************************************************************)
(* Connection Registry and Event Broadcast Manager.                        *)
(***************************************************************************)
\* How many times an event was written to a stream.
Count(event, log) == Cardinality({i \in DOMAIN log : log[i] = event})

CopyInFlight(event, server) == [event |-> event, to |-> server] \in channel

C26_PublishedOnceAndFanOutEnds ==
    /\ [][/\ Len(sent') > Len(sent) => publishes' = Append(publishes, 1)
          /\ Len(sent') = Len(sent) =>
                (publishes' = publishes /\ channel' \subseteq channel)]_vars
    /\ \A e \in 1 .. MaxEvents :
          (Len(sent) >= e) ~> (\A t \in Servers : ~CopyInFlight(e, t))

\* The fan-out of an event is over: it was published once and a connection
\* on another server has received it from the channel.
C26_Witness ==
    \E e \in DOMAIN sent : \E c \in DOMAIN written :
       /\ publishes[e] = 1
       /\ \A t \in Servers : ~CopyInFlight(e, t)
       /\ connections[c].server # sent[e].origin
       /\ Count(e, written[c]) >= 1

C28_FailedWriteDoesNotStopTheOthers ==
    [][Len(sent') > Len(sent) =>
          LET e == Len(sent')
              snapshot == ConnectionsFor(sent'[e].origin, sent'[e].userId)
          IN /\ sent'[e].result = "ok"
             /\ \A c \in snapshot :
                   written'[c] = IF c \in open THEN written[c] \o <<e>>
                                 ELSE written[c]]_vars

\* Two connections of the user registered on one server: the first, dead
\* and not yet unregistered, did not get the event; the second did.
C28_Witness ==
    \E e \in DOMAIN sent : \E c, d \in registry :
       /\ c < d
       /\ connections[c] = connections[d]
       /\ connections[c].server = sent[e].origin
       /\ connections[c].userId = sent[e].userId
       /\ c \notin open
       /\ Count(e, written[c]) = 0 /\ Count(e, written[d]) = 1

\* C29: unregister removes the connection it names and no other;
\* unregistering an id that is not registered (again, or never given out)
\* changes nothing; after the last connection of a user on a server is
\* unregistered connectionsFor is empty; and every step that changes the
\* registry is a register, which adds the new id, or an unregister.
C29_UnregisterIsExactAndIdempotent ==
    [][/\ \A c \in RequestedIds :
             /\ Remove(registry, c) = {d \in registry : d # c}
             /\ Remove(Remove(registry, c), c) = Remove(registry, c)
             /\ c \notin registry => Remove(registry, c) = registry
             /\ \A s \in Servers, u \in Listeners :
                   ConnectionsIn(registry, s, u) = {c} =>
                      ConnectionsIn(Remove(registry, c), s, u) = {}
       /\ registry' # registry =>
             \/ /\ Len(connections') = Len(connections) + 1
                /\ registry' = registry \cup {Len(connections')}
             \/ /\ \E c \in registry : registry' = {d \in registry : d # c}
                /\ UNCHANGED <<connections, written, sent, channel, publishes>>]_vars

\* A user had two connections on one server; one was unregistered and the
\* other is still registered.
C29_Witness ==
    \E c, d \in DOMAIN connections :
       /\ c # d /\ connections[c] = connections[d]
       /\ c \notin registry /\ d \in registry

\* C30: a markRead that adds the user to readBy sets READ when readBy has
\* then reached the recipient count; when it has not, it sets DELIVERED,
\* however few users are in deliveredTo, unless the status is READ already.
C30_FirstReadSetsDeliveredOrRead ==
    [][\A p \in Procs :
          (/\ req[p].op = "markRead"
           /\ req[p].pc = "final" /\ req'[p].pc = "idle"
           /\ req[p].targetUserId \notin req[p].message.readBy)
          => messages'[req[p].id].status =
                IF Cardinality(messages'[req[p].id].readBy)
                      >= RecipientCount(req[p].message)
                THEN "READ"
                ELSE IF req[p].message.status = "READ" THEN "READ"
                ELSE "DELIVERED"]_vars

\* A first read in a conversation of three, no markDelivered having been
\* called: one of the two recipients has read, deliveredTo holds that one
\* user, and the status is DELIVERED.
C30_Witness ==
    /\ members = {1, 2, 3}
    /\ Len(messages) = 1
    /\ AllIdle
    /\ \A k \in DOMAIN started : started[k][1] = "markRead"
    /\ \E u \in Users : Response(<<"markRead", 1, u>>, 200) \in responses
    /\ Cardinality(messages[1].readBy) = 1
    /\ messages[1].deliveredTo = messages[1].readBy
    /\ messages[1].status = "DELIVERED"

(***************************************************************************)
(* Acknowledgments: who may acknowledge, the threshold, the status event.  *)
(***************************************************************************)
\* The handler p serves a call of the operation and completes in this step.
Completes(p, op) ==
    req[p].op = op /\ req[p].pc = "final" /\ req'[p].pc = "idle"

NotRecipient(message, userId) ==
    userId \notin message.members \/ userId = message.senderId

\* C31: an acknowledgment for a user who is not a recipient of the message
\* (a non-member, or the sender) is recorded like any other, and the entry
\* counts: when the set has reached the recipient count the status has been
\* promoted on its account.
C31_NonRecipientIsRecordedAndCounts ==
    [][\A p \in Procs :
          /\ (Completes(p, "markDelivered")
                 /\ NotRecipient(req[p].message, req[p].targetUserId)) =>
                /\ req[p].targetUserId \in messages'[req[p].id].deliveredTo
                /\ Cardinality(messages'[req[p].id].deliveredTo)
                      >= Cardinality(req[p].message.members
                                        \ {req[p].message.senderId})
                   => messages'[req[p].id].status = "DELIVERED"
          /\ (Completes(p, "markRead")
                 /\ NotRecipient(req[p].message, req[p].targetUserId)) =>
                /\ req[p].targetUserId \in messages'[req[p].id].readBy
                /\ Cardinality(messages'[req[p].id].readBy)
                      >= Cardinality(req[p].message.members
                                        \ {req[p].message.senderId})
                   => messages'[req[p].id].status = "READ"]_vars

\* With members {1, 2}, the non-member 3 alone is in deliveredTo and the
\* status is DELIVERED.
C31_Witness ==
    /\ members = {1, 2}
    /\ Len(messages) = 1
    /\ AllIdle
    /\ messages[1].deliveredTo = {3}
    /\ messages[1].status = "DELIVERED"
    /\ Response(<<"markDelivered", 1, 3>>, 200) \in responses

\* C32: the threshold is the number of non-sender members the store holds
\* when the acknowledgment reads the message, not the number the message
\* was sent to: the handler promotes exactly when the set has reached that
\* count, and a step that changes the membership changes no message.
C32_ThresholdIsMembershipAtAcknowledgment ==
    [][/\ \A p \in Procs :
             (req[p].pc = "idle" /\ req'[p].pc = "connect") =>
                req'[p].message.members = members
       /\ \A p \in Procs :
             (req[p].pc = "recount" /\ req'[p] # req[p]) =>
                LET count == Cardinality(req[p].message.members
                                            \ {req[p].message.senderId})
                    stored == messages[req[p].id]
                IN IF req[p].op = "markDelivered"
                   THEN (req'[p].pc = "promote")
                           <=> Cardinality(stored.deliveredTo) >= count
                   ELSE (req'[p].pc = "promote" /\ req'[p].updatedStatus = "READ")
                           <=> Cardinality(stored.readBy) >= count
       /\ members' # members => messages' = messages]_vars

\* The message went to user 2 alone; user 3 was added; user 2's
\* markDelivered has completed and the status is still SENT.
C32_Witness ==
    /\ members = {1, 2, 3}
    /\ Len(messages) = 1
    /\ AllIdle
    /\ {events[i].to : i \in {j \in DOMAIN events :
                                 events[j].name = "message:new"}} = {2}
    /\ messages[1].deliveredTo = {2}
    /\ Response(<<"markDelivered", 1, 2>>, 200) \in responses
    /\ messages[1].status = "SENT"

\* C33: a handler that records an acknowledgment emits one message:status
\* event: to the sender of the message, with the message id, the kind and
\* the acknowledged user; it does so when the user is in the stored set and
\* the status update it decided on, if any, has been applied; it emits no
\* other, and answers only after that.
C33_OneStatusEventAfterTheWrites ==
    [][/\ \A p \in Procs :
             (req[p].pc \notin {"idle", "final"} /\ req'[p].pc = "final") =>
                /\ events' = Append(events,
                      [to |-> req[p].message.senderId,
                       name |-> "message:status",
                       messageId |-> req[p].id,
                       status |-> IF req[p].op = "markDelivered"
                                  THEN "delivered" ELSE "read",
                       userId |-> req[p].targetUserId])
                /\ req[p].targetUserId \in
                      (IF req[p].op = "markDelivered"
                       THEN messages'[req[p].id].deliveredTo
                       ELSE messages'[req[p].id].readBy)
                /\ req[p].pc = "promote" =>
                      messages'[req[p].id].status = req[p].updatedStatus
       /\ (\A p \in Procs :
              ~(req[p].pc \notin {"idle", "final"} /\ req'[p].pc = "final")) =>
             \A i \in DOMAIN events' :
                i > Len(events) => events'[i].name # "message:status"
       /\ \A p \in Procs :
             (req[p].pc # "idle" /\ req'[p].pc = "idle") => req[p].pc = "final"]_vars

\* A markDelivered of user 2 promoted the message, and the sender was sent
\* its one event.
C33_Witness ==
    /\ members = {1, 2}
    /\ Len(messages) = 1
    /\ AllIdle
    /\ messages[1].deliveredTo = {2}
    /\ messages[1].status = "DELIVERED"
    /\ Len(events) = 2
    /\ events[2] = [to |-> 1, name |-> "message:status", messageId |-> 1,
                    status |-> "delivered", userId |-> 2]

(***************************************************************************)
(* Calls: duration, and failures of the token service.                     *)
(***************************************************************************)
\* C34: when endCall applies its update, for a call it read without a start
\* time the call:ended event carries duration 0 and the stored duration is
\* null; for a call it read with a start time both are the same number d of
\* whole seconds from that start time to the stored end time, d >= 0 (the
\* clock counts half seconds: 2d <= end - start < 2d + 2).
C34_DurationIsWholeSecondsOrNull ==
    [][\A p \in Procs :
          Updates(p, "end") =>
             LET read == creq[p].call
                 stored == calls'[creq[p].callId]
                 ended == cevents'[Len(cevents')]
             IN /\ Len(cevents') = Len(cevents) + 1
                /\ ended.name = "call:ended"
                /\ IF read.startTime = Null
                   THEN ended.duration = 0 /\ stored.duration = Null
                   ELSE \E d \in Times :
                           /\ stored.duration = <<d>>
                           /\ ended.duration = d
                           /\ 2 * d <= stored.endTime[1] - read.startTime[1]
                           /\ stored.endTime[1] - read.startTime[1] < 2 * d + 2]_vars

\* A call accepted at tick 0 and ended at tick 2: one second, stored and
\* sent.
C34_Witness ==
    /\ calls # <<>>
    /\ calls[1].startTime = <<0>>
    /\ calls[1].endTime = <<2>>
    /\ calls[1].duration = <<1>>
    /\ cevents # <<>>
    /\ cevents[Len(cevents)].name = "call:ended"
    /\ cevents[Len(cevents)].duration = 1

\* The step in which handler p answers a request of the operation with 500.
Fails(p, op) ==
    /\ Steps(p, op)
    /\ creq'[p].pc = "idle"
    /\ cresponse' = CallResponse(op, creq[p].callId, creq[p].userId, 500)

\* C36: when initiateCall fails for want of a token, it is answered with an
\* error, no call:incoming has been sent and the call it was about is not in
\* the store in INITIATED.
C36_FailedInitiateLeavesNothing ==
    [][\A p \in Procs :
          Fails(p, "initiate") =>
             /\ SentNow("call:incoming") = {}
             /\ \A i \in DOMAIN cevents' :
                   ~(cevents'[i].name = "call:incoming"
                        /\ cevents'[i].callId = creq[p].callId)
             /\ \/ creq[p].callId \notin DOMAIN calls'
                \/ calls'[creq[p].callId].status # "INITIATED"]_vars

\* C37: when acceptCall fails, the status and the start time of the call
\* are the ones the handler read.
C37_FailedAcceptChangesNothing ==
    [][\A p \in Procs :
          Fails(p, "accept") =>
             /\ calls'[creq[p].callId].status = creq[p].call.status
             /\ calls'[creq[p].callId].startTime = creq[p].call.startTime]_vars

\* C35: every conversation in the store (all are created by
\* createConversation) has exactly two members when it is PRIVATE and at
\* least two when it is GROUP.
C35_CreatedConversationsKeepMemberCounts ==
    \A i \in DOMAIN conversationRows :
        /\ conversationRows[i].type = "PRIVATE" =>
              Cardinality(conversationRows[i].members) = 2
        /\ conversationRows[i].type = "GROUP" =>
              Cardinality(conversationRows[i].members) >= 2

\* The PRIVATE conversations of the store whose members are exactly the two
\* users.
PrivateOf(rows, a, b) ==
    {i \in DOMAIN rows : rows[i].type = "PRIVATE" /\ rows[i].members = {a, b}}

\* C38: no two PRIVATE conversations have the same two members; a
\* createConversation for one other user neither creates a conversation nor
\* sends conversation:new when the store holds the PRIVATE conversation of
\* the pair, and the answer that says alreadyExists names that conversation.
C38_OnePrivateConversationPerPair ==
    [][/\ \A a, b \in Users : Cardinality(PrivateOf(conversationRows', a, b)) <= 1
       /\ \A p \in Procs :
             LET r == cvreq[p]
                 pair == PrivateOf(conversationRows, r.userId, r.memberIds[1])
             IN  /\ r.pc \in {"find", "create"}
                 /\ r.conversationType = "PRIVATE"
                 /\ Len(r.memberIds) = 1
                 /\ pair # {}
                 /\ cvreq'[p] # r
                 => /\ conversationRows' = conversationRows
                    /\ cvevents' = cvevents
                    /\ r.pc = "find" =>
                          /\ cvreq'[p].pc = "idle"
                          /\ cvresponses' # cvresponses
                          /\ cvresponses'[Len(cvresponses')].alreadyExists
                          /\ cvresponses'[Len(cvresponses')].id \in pair]_vars

\* The scans answered with success so far.
SuccessfulScans(log) ==
    {i \in DOMAIN log : log[i].op = "scan" /\ log[i].success}

\* C39: once a challenge has an authorizedUserId, it keeps that one as long
\* as it exists, a scan answered from then on fails, and so at most one scan
\* of the challenge is ever answered with success.
C39_AuthorizedAtMostOnce ==
    [][/\ challenge # NoChallenge /\ challenge.authorizedUserId # Null
             /\ challenge' # NoChallenge
          => challenge'.authorizedUserId = challenge.authorizedUserId
       /\ challenge.authorizedUserId # Null
          => SuccessfulScans(qresponses') = SuccessfulScans(qresponses)
       /\ Cardinality(SuccessfulScans(qresponses')) <= 1]_vars

\* C40: the challenge yields at most one stored refresh token, and at most
\* one confirm of it is answered with success.
C40_AtMostOneDesktopSession ==
    /\ Len(refreshTokens) <= 1
    /\ Cardinality({i \in DOMAIN qresponses :
           qresponses[i].op = "confirm" /\ qresponses[i].success}) <= 1

====
